---- MODULE Spec2Model ----
(***************************************************************************)
(* Model of the authentication / session subsystem of go_boilerplate:      *)
(* internal/modules/auth/service.go (authService) with the parts of        *)
(* internal/modules/user/service.go, internal/shared/utils/jwt.go and the  *)
(* password helpers it calls.                                              *)
(*                                                                         *)
(* The relational store (m_users, t_sessions) and the Redis key-value      *)
(* store are state variables.  Every database or Redis statement is        *)
(* atomic; RefreshToken and Verify2FA are split between the statement that *)
(* reads the session row / stored code and the statements that write, so   *)
(* two calls may interleave as two request goroutines do.  The other       *)
(* methods are one step each.  Time is counted in seconds, the precision   *)
(* of jwt.NumericDate.  Session metadata (IP, user agent, device id) is    *)
(* copied verbatim by saveSession and decides no branch; it is left out.   *)
(***************************************************************************)
EXTENDS Integers, Sequences, FiniteSets, TLC

\* ---------------------------------------------------------------- bounds
MaxTime == 2
MaxSessions == 3
MaxCodes == 3

\* ------------------------------------------------- configuration / inputs
\* JWT_REFRESH_EXPIRY and JWT_ACCESS_EXPIRY are read from the environment;
\* the deployment modelled sets them to 2s and 1s so that a session expires
\* within MaxTime.  The OTP lifetimes are the literals of service.go, in
\* seconds.
RefreshExpiry == 2
AccessExpiry == 1
ActivationTTL == 600
TwoFactorTTL == 300

SuperAdminEmail == "superadmin@boilerplate.com"
SuperAdminPassword == "SuperAdmin123!"
RegEmails == {"ann@x.com"}
AllEmails == RegEmails \cup {SuperAdminEmail}
Passwords == {"secret1"}
LoginPasswords == Passwords \cup {SuperAdminPassword}
\* utils.RandomIntString(length): a text of length decimal digits.  The two
\* code texts the model draws from, with their characters:
CodeDigits ==
    ("000001" :> <<0, 0, 0, 0, 0, 1>>) @@ ("654321" :> <<6, 5, 4, 3, 2, 1>>)

RandomIntString(length) ==
    {c \in DOMAIN CodeDigits :
        /\ Len(CodeDigits[c]) = length
        /\ \A i \in 1..length : CodeDigits[c][i] \in 0..9}

Codes == RandomIntString(6)
\* the seeded roles; "none" stands for a role id that names no role
Roles == {"user", "admin", "super_admin"}
RoleInputs == Roles \cup {"none"}
Workers == {1, 2}
SessionIds == 1..MaxSessions

VARIABLES cfg, proc, roles, now, users, sessions, nextSid, otp, codeSeq, calls, last,
          issued, spent, pwdChecked

vars == <<cfg, proc, roles, now, users, sessions, nextSid, otp, codeSeq, calls, last,
          issued, spent, pwdChecked>>

\* ------------------------------------------------------- password hasher
\* A password value is a sequence of strings. A plaintext with none of the
\* bcrypt prefixes is <<p>>; a plaintext that begins with one of them is the
\* prefix followed by the rest; the bcrypt text of a plaintext is "$2a$",
\* the cost and salt field "10$", then the plaintext it was made from. A
\* request password is 6 to 50 characters long, a bcrypt text 60, so no
\* plaintext is a bcrypt text.
PrefixedPasswords ==
    ("$2a$secret" :> <<"$2a$", "secret">>) @@ ("$2b$secret" :> <<"$2b$", "secret">>)

Plain(p) == IF p \in DOMAIN PrefixedPasswords THEN PrefixedPasswords[p] ELSE <<p>>

IsHashed(password) == password[1] \in {"$2a$", "$2b$", "$2y$"}

HashPassword(password) == <<"$2a$", "10$">> \o password

ComparePassword(hashedPassword, password) ==
    /\ Len(hashedPassword) = Len(password) + 2
    /\ hashedPassword[1] = "$2a$"
    /\ hashedPassword[2] = "10$"
    /\ SubSeq(hashedPassword, 3, Len(hashedPassword)) = password

\* a save hook that hashes whatever the password field holds
hashPasswordAlways(password) == HashPassword(password)

hashPassword(password) ==
    IF password # <<>> /\ ~IsHashed(password) THEN HashPassword(password)
    ELSE password

\* ------------------------------------------------------------ token codec
\* A token string is modelled by what it decodes to: the claims, the header's
\* alg and the key its signature was made with.  iat stands for nbf as well
\* (GenerateToken sets both to time.Now()).
Secret == "change-this-secret-in-production"
Issuer == "go_boilerplate"
HMACFamily == {"HS256", "HS384", "HS512"}

Forged == [uid |-> 0, email |-> "", role |-> "", perms |-> <<>>, iat |-> 0,
           exp |-> 0, iss |-> "", alg |-> "HS256", key |-> ""]

\* the custom claims: user_id and email, and the role_slug and permissions
\* the callers pass and the middleware reads
JWTClaims(userID, email, roleSlug, permissions) ==
    [uid |-> userID, email |-> email, role |-> roleSlug, perms |-> permissions]

NoClaims == JWTClaims(0, "", "", <<>>)

\* a GenerateToken that leaves the role claims empty
GenerateTokenNoRole(userID, email, roleSlug, permissions, expiry) ==
    [uid |-> userID, email |-> email, role |-> "", perms |-> <<>>,
     iat |-> now, exp |-> now + expiry,
     iss |-> Issuer, alg |-> "HS256", key |-> Secret]

GenerateToken(userID, email, roleSlug, permissions, expiry) ==
    LET claims == JWTClaims(userID, email, roleSlug, permissions)
    IN  [uid |-> claims.uid, email |-> claims.email, role |-> claims.role,
         perms |-> claims.perms,
         iat |-> now, exp |-> now + expiry,
         iss |-> Issuer, alg |-> "HS256", key |-> Secret]

GenerateAccessToken(userID, email, roleSlug, permissions) ==
    GenerateToken(userID, email, roleSlug, permissions, AccessExpiry)

GenerateRefreshToken(userID, email, roleSlug, permissions) ==
    GenerateToken(userID, email, roleSlug, permissions, RefreshExpiry)

\* jwt.ParseWithClaims with the key function and no parser option: the
\* header's alg must be an HMAC method, the signature must verify under the
\* configured secret, and the registered claims exp and nbf are checked
\* against the clock.  No issuer is asked for.
ValidateToken(tokenString) ==
    /\ tokenString.alg \in HMACFamily
    /\ tokenString.key = Secret
    /\ now < tokenString.exp
    /\ tokenString.iat <= now

\* the claims ValidateToken hands back for a token it accepts
ParseClaims(tokenString) ==
    JWTClaims(tokenString.uid, tokenString.email, tokenString.role,
              tokenString.perms)

\* ------------------------------------------------------------ role table
\* the rows SeedInitialRoles writes at start-up, by slug
SeedInitialRoles ==
    [slug \in Roles |->
        CASE slug = "super_admin" -> <<"*">>
          [] slug = "admin" -> <<"users.create", "users.read", "users.update",
                                 "users.delete", "roles.read", "roles.assign">>
          [] OTHER -> <<"users.read", "users.update">>]

\* permissions as seeded, whatever the role table says now
RolePermissionsAsSeeded(slug) == IF slug \in Roles THEN SeedInitialRoles[slug] ELSE <<>>

\* the Permissions of the role row preloaded with a user; none without a role
RolePermissions(slug) == IF slug \in Roles THEN roles[slug] ELSE <<>>

\* ------------------------------------------------------- user directory
NoUser == [id |-> 0, email |-> "", password |-> <<>>, role |-> "", verified |-> FALSE]

ExistsByEmail(email) == \E u \in users : u.email = email

FindByEmail(email) ==
    IF ExistsByEmail(email) THEN CHOOSE u \in users : u.email = email ELSE NoUser

FindByID(id) ==
    IF \E u \in users : u.id = id THEN CHOOSE u \in users : u.id = id ELSE NoUser

\* ValidatePassword without the bcrypt comparison
ValidatePasswordAnyPassword(email, password) == FindByEmail(email)

ValidatePassword(email, password) ==
    LET user == FindByEmail(email) IN
    IF user = NoUser THEN NoUser
    ELSE IF ~ComparePassword(user.password, password) THEN NoUser
    ELSE user

SetVerified(us, email) ==
    {IF u.email = email THEN [u EXCEPT !.verified = TRUE] ELSE u : u \in us}

\* --------------------------------------------------------------- OTP store
OtpKeys == {"activation", "2fa"} \X AllEmails
\* n, by and old are history fields: the serial number of the Set that stored
\* the code, the method that made it, and the code that Set overwrote
NoCode == [code |-> "", exp |-> 0, n |-> 0, by |-> "", old |-> ""]

RedisGet(key) ==
    IF otp[key].code # "" /\ now < otp[key].exp THEN otp[key].code ELSE ""

\* a Set that leaves a code that is still stored in place
RedisSetIfAbsent(key, code, ttl, by) ==
    IF RedisGet(key) # "" THEN otp
    ELSE [otp EXCEPT ![key] = [code |-> code, exp |-> now + ttl, n |-> codeSeq + 1,
                               by |-> by, old |-> ""]]

RedisSet(key, code, ttl, by) ==
    [otp EXCEPT ![key] = [code |-> code, exp |-> now + ttl, n |-> codeSeq + 1,
                          by |-> by, old |-> RedisGet(key)]]

\* a Del that leaves the key in place
RedisDelKeepsKey(key) == otp

RedisDel(key) == [otp EXCEPT ![key] = NoCode]

\* ----------------------------------------------------------- session store
NoToken == [uid |-> 0, email |-> "", role |-> "", perms |-> <<>>, iat |-> 0,
            exp |-> -1, iss |-> "", alg |-> "", key |-> ""]
\* parent and via are history fields: the row a RefreshToken rotated from and
\* the stored two-factor code a Verify2FA redeemed (0: none)
NoSession == [id |-> 0, uid |-> 0, token |-> NoToken, blocked |-> FALSE,
              expires |-> 0, parent |-> 0, via |-> 0]

\* db.Create(session): the unique index on token rejects a duplicate
saveSessionFails(ss, token) == \E s \in ss : s.token = token

saveSession(ss, userID, token, parent, via) ==
    ss \cup {[id |-> nextSid, uid |-> userID, token |-> token,
              blocked |-> FALSE, expires |-> now + RefreshExpiry,
              parent |-> parent, via |-> via]}

\* the lookup without its is_blocked condition
ValidSessionsIgnoringBlocked(refreshToken) ==
    {s \in sessions : s.token = refreshToken /\ s.expires > now}

\* db.Where("token = ? AND expires_at > ? AND is_blocked = ?", t, now, false)
ValidSessions(refreshToken) ==
    {s \in sessions : s.token = refreshToken /\ s.expires > now /\ ~s.blocked}

\* ------------------------------------------------------------ responses
\* what the HTTP layer answers for the call that returned in this step:
\* the service's error kind ("" for nil), the handler's status code, the
\* refresh token handed out with the id of the session row created for it,
\* and, where a property needs them, the arguments of the call.  late is a
\* history flag of RefreshToken: an earlier RefreshToken of the same token
\* had succeeded before this call began.
NoResp == [op |-> "", err |-> "", status |-> 0, sid |-> 0, tok |-> NoToken,
           acc |-> NoToken,
           requires2FA |-> FALSE, email |-> "", pwd |-> "", code |-> "",
           uid |-> 0, arg |-> NoToken, late |-> FALSE,
           inp |-> NoClaims, claims |-> NoClaims]

Resp(op, err, status) == [NoResp EXCEPT !.op = op, !.err = err, !.status = status]

\* a request goroutine between two store statements
Idle == [pc |-> "idle", op |-> "", tok |-> NoToken, stored |-> NoSession,
         email |-> "", code |-> "", inst |-> 0, late |-> FALSE, user |-> NoUser]

\* ------------------------------------------------------------------ Init
Init ==
    /\ cfg \in [verification : BOOLEAN, twoFactor : BOOLEAN,
                email : BOOLEAN, welcome : BOOLEAN]
    /\ proc = [alive |-> TRUE, tasks |-> {}]
    /\ roles = SeedInitialRoles
    /\ now = 0
    /\ users = {[id |-> 1, email |-> SuperAdminEmail,
                 password |-> HashPassword(Plain(SuperAdminPassword)),
                 role |-> "super_admin", verified |-> TRUE]}
    /\ sessions = {}
    /\ nextSid = 1
    /\ otp = [k \in OtpKeys |-> NoCode]
    /\ codeSeq = 0
    /\ calls = [w \in Workers |-> Idle]
    /\ last = NoResp
    /\ issued = {}
    /\ spent = {}
    /\ pwdChecked = {}

\* request goroutines are interchangeable: a new call takes the lowest idle slot
FreeSlot(w) ==
    /\ calls[w].pc = "idle"
    /\ \A v \in Workers : v < w => calls[v].pc # "idle"

\* ------------------------------------------------------ detached email
\* go func() { if s.emailService != nil { s.emailService.Send...(to, code) } }:
\* a task the request does not wait for.  authService's email service exists
\* when cfg.Email.Enabled and is built with the application's logger.
Dispatch(kind, to) ==
    proc' = IF cfg.email
            THEN [proc EXCEPT !.tasks = @ \cup {[kind |-> kind, to |-> to,
                                                 logger |-> TRUE]}]
            ELSE proc

\* ------------------------------------------------- generateAuthResponse
\* Loads the profile, mints the pair and saves the session row.  The caller
\* supplies the profile row it loads (userWithRole) and the sessions table
\* its earlier statements left (ss).
generateAuthResponse(r, userWithRole, ss, parent, via) ==
    LET roleSlug == userWithRole.role
        permissions == RolePermissions(userWithRole.role)
        accessToken ==
            GenerateAccessToken(userWithRole.id, userWithRole.email, roleSlug,
                                permissions)
        refreshToken ==
            GenerateRefreshToken(userWithRole.id, userWithRole.email, roleSlug,
                                 permissions)
    IN  IF saveSessionFails(ss, refreshToken)
        THEN /\ sessions' = ss
             /\ UNCHANGED <<nextSid, issued>>
             /\ last' = [r EXCEPT !.err = "StoreError"]
        ELSE /\ nextSid <= MaxSessions
             /\ sessions' = saveSession(ss, userWithRole.id, refreshToken, parent, via)
             /\ nextSid' = nextSid + 1
             /\ issued' = issued \cup {refreshToken}
             /\ last' = [r EXCEPT !.err = "",
                                  !.sid = nextSid, !.tok = refreshToken,
                                  !.acc = accessToken,
                                  !.status = IF r.op = "Register" THEN 201 ELSE 200]

\* ---------------------------------------------------------------- Register
\* a CreateUser that stores the row as already verified
CreateUserVerified(email, password) ==
    [id |-> Cardinality(users) + 1, email |-> email,
     password |-> hashPassword(Plain(password)), role |-> "user",
     verified |-> TRUE]

\* userService.CreateUser with no role id: the default role "user"
CreateUser(email, password) ==
    [id |-> Cardinality(users) + 1, email |-> email,
     password |-> hashPassword(Plain(password)), role |-> "user",
     verified |-> FALSE]

\* Register once userService.CreateUser has stored createdUser
RegisterCreated(r, createdUser) ==
    IF cfg.verification
    THEN /\ codeSeq < MaxCodes
         /\ \E code \in Codes :
                otp' = RedisSet(<<"activation", createdUser.email>>, code,
                               ActivationTTL, "Register")
         /\ codeSeq' = codeSeq + 1
         /\ Dispatch("verification", createdUser.email)
         /\ users' = users \cup {createdUser}
         /\ last' = [r EXCEPT !.status = 201]
         /\ UNCHANGED <<sessions, nextSid, issued>>
    ELSE /\ users' = users \cup {[createdUser EXCEPT !.verified = TRUE]}
         /\ generateAuthResponse(r, [createdUser EXCEPT !.verified = TRUE],
                                 sessions, 0, 0)
         /\ UNCHANGED <<proc, otp, codeSeq>>

Register(email, password) ==
    LET r == [Resp("Register", "", 400) EXCEPT !.email = email, !.pwd = password]
    IN  /\ UNCHANGED <<cfg, roles, now, calls, spent, pwdChecked>>
        /\ IF ExistsByEmail(email)
           THEN /\ last' = [r EXCEPT !.err = "EmailExists"]
                /\ UNCHANGED <<proc, users, sessions, nextSid, otp, codeSeq, issued>>
           ELSE RegisterCreated(r, CreateUser(email, password))

\* ------------------------------------- user directory, statement by statement
\* userService.CreateUser reads (ExistsByEmail, the role) and then writes
\* (repo.Create); UpdateUser reads the row and then saves it whole.  Two
\* calls may interleave between the read and the write.  The unique index
\* idx_m_users_email makes the write fail when the email is taken by then.
\* a directory without the unique index on email
EmailNeverTaken(email, exceptID) == FALSE

EmailTaken(email, exceptID) == \E u \in users : u.email = email /\ u.id # exceptID

\* a role check that lets every role through
RoleAllowedAny(slug) == TRUE

\* role.Slug != "user" && role.Slug != "admin" is refused
RoleAllowed(slug) == slug = "user" \/ slug = "admin"

\* CreateUser up to repo.Create, for Register (role "": none given) and for
\* POST /users
CreateUserCheck(w, op, email, password, role) ==
    LET r == [Resp(op, "", 400) EXCEPT !.email = email]
    IN  /\ FreeSlot(w)
        /\ UNCHANGED <<cfg, roles, proc, now, users, sessions, nextSid, otp, codeSeq, issued,
                       spent, pwdChecked>>
        /\ IF ExistsByEmail(email)
           THEN last' = [r EXCEPT !.err = "EmailExists"] /\ UNCHANGED calls
           ELSE IF role # "" /\ role \notin Roles
           THEN last' = [r EXCEPT !.err = "RoleNotFound"] /\ UNCHANGED calls
           ELSE IF role # "" /\ ~RoleAllowed(role)
           THEN last' = [r EXCEPT !.err = "RoleNotAllowed"] /\ UNCHANGED calls
           ELSE /\ calls' = [calls EXCEPT ![w] = [Idle EXCEPT !.pc = "cu_checked",
                                 !.op = op, !.email = email,
                                 !.user = [CreateUser(email, password) EXCEPT
                                              !.id = 0,
                                              !.role = IF role = "" THEN "user"
                                                       ELSE role]]]
                /\ last' = NoResp

\* repo.Create and what the caller does with the created user
CreateUserInsert(w) ==
    LET c == calls[w]
        r == [Resp(c.op, "", 400) EXCEPT !.email = c.email]
        createdUser == [c.user EXCEPT !.id = Cardinality(users) + 1]
    IN  /\ c.pc = "cu_checked"
        /\ calls' = [calls EXCEPT ![w] = Idle]
        /\ UNCHANGED <<cfg, roles, now, spent, pwdChecked>>
        /\ IF EmailTaken(c.email, 0)
           THEN /\ last' = [r EXCEPT !.err = "StoreError"]
                /\ UNCHANGED <<proc, users, sessions, nextSid, otp, codeSeq, issued>>
           ELSE IF c.op = "Register"
           THEN RegisterCreated(r, createdUser)
           ELSE /\ users' = users \cup {createdUser}
                /\ last' = [r EXCEPT !.status = 201]
                /\ UNCHANGED <<proc, sessions, nextSid, otp, codeSeq, issued>>

\* UpdateUser up to repo.Update (email "" / role "": not in the request)
UpdateUserFind(w, userID, email, role) ==
    LET r == [Resp("UpdateUser", "", 400) EXCEPT !.uid = userID, !.email = email]
        userModel == FindByID(userID)
        changesEmail == email # "" /\ email # userModel.email
    IN  /\ FreeSlot(w)
        /\ UNCHANGED <<cfg, roles, proc, now, users, sessions, nextSid, otp, codeSeq, issued,
                       spent, pwdChecked>>
        /\ IF userModel = NoUser
           THEN last' = [r EXCEPT !.err = "UserNotFound"] /\ UNCHANGED calls
           ELSE IF changesEmail /\ ExistsByEmail(email)
           THEN last' = [r EXCEPT !.err = "EmailExists"] /\ UNCHANGED calls
           ELSE IF role # "" /\ role \notin Roles
           THEN last' = [r EXCEPT !.err = "RoleNotFound"] /\ UNCHANGED calls
           ELSE IF role # "" /\ ~RoleAllowed(role)
           THEN last' = [r EXCEPT !.err = "RoleNotAllowed"] /\ UNCHANGED calls
           ELSE /\ calls' = [calls EXCEPT ![w] = [Idle EXCEPT !.pc = "uu_loaded",
                                 !.op = "UpdateUser", !.email = email,
                                 !.user = [userModel EXCEPT
                                     !.email = IF changesEmail THEN email ELSE @,
                                     !.role = IF role # "" THEN role ELSE @]]]
                /\ last' = NoResp

\* repo.Update: db.Save writes every column of the row read earlier
UpdateUserSave(w) ==
    LET c == calls[w]
        r == [Resp("UpdateUser", "", 400) EXCEPT !.uid = c.user.id, !.email = c.email]
        saved == [c.user EXCEPT !.password = hashPassword(c.user.password)]
    IN  /\ c.pc = "uu_loaded"
        /\ calls' = [calls EXCEPT ![w] = Idle]
        /\ UNCHANGED <<cfg, roles, proc, now, sessions, nextSid, otp, codeSeq, issued, spent,
                       pwdChecked>>
        /\ IF EmailTaken(saved.email, saved.id)
           THEN last' = [r EXCEPT !.err = "StoreError"] /\ UNCHANGED users
           ELSE /\ users' = {u \in users : u.id # saved.id} \cup {saved}
                /\ last' = [r EXCEPT !.status = 200]

\* ------------------------------------------------------------------- Login
Login(email, password) ==
    LET r == [Resp("Login", "", 401) EXCEPT !.email = email, !.pwd = password]
        authenticatedUser == ValidatePassword(email, Plain(password))
        isSuperAdmin == authenticatedUser.role = "super_admin"
    IN  /\ UNCHANGED <<cfg, roles, now, users, calls, spent>>
        /\ IF authenticatedUser = NoUser
           THEN /\ last' = [r EXCEPT !.err = "InvalidCredentials"]
                /\ UNCHANGED <<proc, sessions, nextSid, otp, codeSeq, issued,
                               pwdChecked>>
           ELSE /\ pwdChecked' = pwdChecked \cup {email}
                /\ IF cfg.verification /\ ~authenticatedUser.verified /\ ~isSuperAdmin
                   THEN /\ last' = [r EXCEPT !.err = "AccountNotVerified"]
                        /\ UNCHANGED <<proc, sessions, nextSid, otp, codeSeq, issued>>
                   ELSE IF cfg.twoFactor /\ ~isSuperAdmin
                   THEN /\ codeSeq < MaxCodes
                        /\ \E code \in Codes :
                               otp' = RedisSet(<<"2fa", email>>, code,
                                      TwoFactorTTL, "Login")
                        /\ codeSeq' = codeSeq + 1
                        /\ Dispatch("two_factor", email)
                        /\ last' = [r EXCEPT !.status = 200, !.requires2FA = TRUE]
                        /\ UNCHANGED <<sessions, nextSid, issued>>
                   ELSE /\ generateAuthResponse(r, authenticatedUser, sessions, 0, 0)
                        /\ UNCHANGED <<proc, otp, codeSeq>>

\* ------------------------------------------------------------- VerifyEmail
VerifyEmail(email, code) ==
    LET r == [Resp("VerifyEmail", "", 400) EXCEPT !.email = email, !.code = code]
        key == <<"activation", email>>
        storedCode == RedisGet(key)
    IN  /\ UNCHANGED <<cfg, roles, proc, now, sessions, nextSid, codeSeq, calls, issued, spent,
                       pwdChecked>>
        /\ IF storedCode = "" \/ storedCode # code
           THEN /\ last' = [r EXCEPT !.err = "InvalidOrExpiredCode"]
                /\ UNCHANGED <<users, otp>>
           ELSE /\ users' = SetVerified(users, email)
                /\ otp' = RedisDel(key)
                /\ last' = [r EXCEPT !.status = 200]

\* ------------------------------------------------ ResendVerification / 2FA
ResendVerification(email) ==
    LET r == Resp("ResendVerification", "", 400)
        user == FindByEmail(email)
    IN  /\ UNCHANGED <<cfg, roles, now, users, sessions, nextSid, calls, issued, spent,
                       pwdChecked>>
        /\ IF ~cfg.verification
           THEN /\ last' = [r EXCEPT !.err = "FeatureDisabled"]
                /\ UNCHANGED <<proc, otp, codeSeq>>
           ELSE IF user = NoUser
           THEN /\ last' = [r EXCEPT !.err = "UserNotFound"]
                /\ UNCHANGED <<proc, otp, codeSeq>>
           ELSE IF user.verified
           THEN /\ last' = [r EXCEPT !.err = "AlreadyVerified"]
                /\ UNCHANGED <<proc, otp, codeSeq>>
           ELSE /\ codeSeq < MaxCodes
                /\ \E code \in Codes :
                       otp' = RedisSet(<<"activation", email>>, code,
                                      ActivationTTL, "ResendVerification")
                /\ codeSeq' = codeSeq + 1
                /\ Dispatch("verification", email)
                /\ last' = [r EXCEPT !.status = 200]

Resend2FA(email) ==
    LET r == Resp("Resend2FA", "", 400)
    IN  /\ UNCHANGED <<cfg, roles, now, users, sessions, nextSid, calls, issued, spent,
                       pwdChecked>>
        /\ IF ~cfg.twoFactor
           THEN /\ last' = [r EXCEPT !.err = "FeatureDisabled"]
                /\ UNCHANGED <<proc, otp, codeSeq>>
           ELSE IF FindByEmail(email) = NoUser
           THEN /\ last' = [r EXCEPT !.err = "UserNotFound"]
                /\ UNCHANGED <<proc, otp, codeSeq>>
           ELSE /\ codeSeq < MaxCodes
                /\ \E code \in Codes :
                       otp' = RedisSet(<<"2fa", email>>, code,
                                      TwoFactorTTL, "Resend2FA")
                /\ codeSeq' = codeSeq + 1
                /\ Dispatch("two_factor", email)
                /\ last' = [r EXCEPT !.status = 200]

\* --------------------------------------------------------------- Verify2FA
\* first statement: redis.Get and the comparison
Verify2FAGet(w, email, code) ==
    LET r == [Resp("Verify2FA", "", 401) EXCEPT !.email = email, !.code = code]
        key == <<"2fa", email>>
        storedCode == RedisGet(key)
    IN  /\ FreeSlot(w)
        /\ UNCHANGED <<cfg, roles, proc, now, users, sessions, nextSid, otp, codeSeq, issued,
                       spent, pwdChecked>>
        /\ IF storedCode = "" \/ storedCode # code
           THEN /\ last' = [r EXCEPT !.err = "InvalidOrExpiredCode"]
                /\ UNCHANGED calls
           ELSE /\ calls' = [calls EXCEPT ![w] = [Idle EXCEPT !.pc = "v2_checked",
                                 !.email = email, !.code = code, !.inst = otp[key].n]]
                /\ last' = NoResp

\* the rest: GetByEmail, redis.Del, generateAuthResponse
Verify2FAIssue(w) ==
    LET c == calls[w]
        r == Resp("Verify2FA", "", 401)
        foundUser == FindByEmail(c.email)
    IN  /\ c.pc = "v2_checked"
        /\ calls' = [calls EXCEPT ![w] = Idle]
        /\ UNCHANGED <<cfg, roles, proc, now, users, codeSeq, spent, pwdChecked>>
        /\ IF foundUser = NoUser
           THEN /\ last' = [r EXCEPT !.err = "UserNotFound"]
                /\ UNCHANGED <<sessions, nextSid, otp, issued>>
           ELSE /\ otp' = RedisDel(<<"2fa", c.email>>)
                /\ generateAuthResponse(r, foundUser, sessions, 0, c.inst)

\* ------------------------------------------------------------ RefreshToken
\* first statements: ValidateToken and the session lookup
RefreshTokenLookup(w, refreshToken) ==
    LET r == [Resp("RefreshToken", "", 401) EXCEPT !.arg = refreshToken]
    IN  /\ FreeSlot(w)
        /\ UNCHANGED <<cfg, roles, proc, now, users, sessions, nextSid, otp, codeSeq, issued,
                       spent, pwdChecked>>
        /\ IF ~ValidateToken(refreshToken)
           THEN /\ last' = [r EXCEPT !.err = "InvalidOrExpiredToken"]
                /\ UNCHANGED calls
           ELSE IF ValidSessions(refreshToken) = {}
           THEN /\ last' = [r EXCEPT !.err = "SessionNotFoundOrBlocked"]
                /\ UNCHANGED calls
           ELSE /\ \E storedSession \in ValidSessions(refreshToken) :
                       calls' = [calls EXCEPT ![w] = [Idle EXCEPT !.pc = "rt_found",
                                     !.tok = refreshToken, !.stored = storedSession,
                                     !.late = refreshToken \in spent]]
                /\ last' = NoResp

\* db.Delete(&storedSession): by primary key, the result is not looked at
DeleteStored(storedSession) == {s \in sessions : s.id # storedSession.id}

\* the rest: GetProfileWithRole, GenerateTokenPair, delete old, saveSession
RefreshTokenRotate(w) ==
    LET c == calls[w]
        claims == c.tok
        r == [Resp("RefreshToken", "", 401) EXCEPT !.arg = c.tok, !.late = c.late]
        userProfile == FindByID(claims.uid)
    IN  /\ c.pc = "rt_found"
        /\ calls' = [calls EXCEPT ![w] = Idle]
        /\ UNCHANGED <<cfg, roles, proc, now, users, otp, codeSeq, pwdChecked>>
        /\ IF userProfile = NoUser
           THEN /\ last' = [r EXCEPT !.err = "UserNotFound"]
                /\ UNCHANGED <<sessions, nextSid, issued, spent>>
           ELSE /\ generateAuthResponse(r,
                       [userProfile EXCEPT !.id = claims.uid, !.email = claims.email],
                       DeleteStored(c.stored), c.stored.id, 0)
                /\ spent' = IF last'.err = "" THEN spent \cup {c.tok} ELSE spent

\* ------------------------------------------------------------------ Logout
\* a delete that takes every session of the token's user with it
DeleteByTokenUser(ss, refreshToken) == {s \in ss : s.uid # refreshToken.uid}

\* db.Where("token = ?", refreshToken).Delete(&dto.Session{})
DeleteByToken(ss, refreshToken) == {s \in ss : s.token # refreshToken}

\* sid is a history field: the row the delete matched (0: none)
Logout(refreshToken) ==
    /\ sessions' = DeleteByToken(sessions, refreshToken)
    /\ last' = [Resp("Logout", "", 200) EXCEPT
                   !.arg = refreshToken,
                   !.sid = IF \E s \in sessions : s.token = refreshToken
                           THEN (CHOOSE s \in sessions : s.token = refreshToken).id
                           ELSE 0]
    /\ UNCHANGED <<cfg, roles, proc, now, users, nextSid, otp, codeSeq, calls, issued, spent,
                   pwdChecked>>

\* --------------------------------------------- DeleteSession / BlockSession
\* the row filter without its user_id condition
OwnSessionAnyUser(s, userID, sessionID) == s.id = sessionID

\* Where("id = ? AND user_id = ?", sessionID, userID)
OwnSession(s, userID, sessionID) == s.id = sessionID /\ s.uid = userID

DeleteSession(userID, sessionID) ==
    /\ sessions' = {s \in sessions : ~OwnSession(s, userID, sessionID)}
    /\ last' = [Resp("DeleteSession", "", 200) EXCEPT !.uid = userID, !.sid = sessionID]
    /\ UNCHANGED <<cfg, roles, proc, now, users, nextSid, otp, codeSeq, calls, issued, spent,
                   pwdChecked>>

BlockSession(userID, sessionID) ==
    /\ sessions' = {IF OwnSession(s, userID, sessionID)
                    THEN [s EXCEPT !.blocked = TRUE] ELSE s : s \in sessions}
    /\ last' = [Resp("BlockSession", "", 200) EXCEPT !.uid = userID, !.sid = sessionID]
    /\ UNCHANGED <<cfg, roles, proc, now, users, nextSid, otp, codeSeq, calls, issued, spent,
                   pwdChecked>>

\* -------------------------------------------------------------- AssignRole
\* userService.AssignRole behind userHandler.AssignRole: repo.Update saves
\* the whole row, its BeforeUpdate hook passing the password through
\* hashPassword
AssignRole(userID, role) ==
    LET r == [Resp("AssignRole", "", 400) EXCEPT !.uid = userID]
        userModel == FindByID(userID)
    IN  /\ UNCHANGED <<cfg, roles, proc, now, sessions, nextSid, otp, codeSeq, calls, issued,
                       spent, pwdChecked>>
        /\ IF userModel = NoUser
           THEN last' = [r EXCEPT !.err = "UserNotFound"] /\ UNCHANGED users
           ELSE IF role \notin Roles
           THEN last' = [r EXCEPT !.err = "RoleNotFound"] /\ UNCHANGED users
           ELSE /\ users' = (users \ {userModel}) \cup
                                {[userModel EXCEPT !.role = role,
                                      !.password = hashPassword(userModel.password)]}
                /\ last' = [r EXCEPT !.status = 200]

\* -------------------------------------------------------------------- time
Tick ==
    /\ now < MaxTime
    /\ now' = now + 1
    /\ last' = NoResp
    /\ UNCHANGED <<cfg, roles, proc, users, sessions, nextSid, otp, codeSeq, calls, issued,
                   spent, pwdChecked>>

\* the holders of an access token: JWTAuth guards the session routes
Authenticated == {t.uid : t \in issued}

\* ------------------------------------------------------- specifications
\* Session lifecycle of one account, one call at a time, both security
\* flags off: login, rotation, logout, delete, block, expiry.
InitSession ==
    Init /\ cfg = [verification |-> FALSE, twoFactor |-> FALSE,
                   email |-> FALSE, welcome |-> FALSE]

NextSession ==
    \/ \E e \in AllEmails, p \in LoginPasswords : Login(e, p)
    \/ \E t \in issued \cup {Forged} : RefreshTokenLookup(1, t)
    \/ RefreshTokenRotate(1)
    \/ \E t \in issued \cup {Forged} : Logout(t)
    \/ \E u \in Authenticated, sid \in SessionIds : DeleteSession(u, sid)
    \/ \E u \in Authenticated, sid \in SessionIds : BlockSession(u, sid)
    \/ Tick

SpecSession == InitSession /\ [][NextSession]_vars

\* Session management by two accounts, both security flags off: the
\* registered account holds the session its registration issued, the super
\* admin logs in repeatedly.
NextScope ==
    \/ \E e \in RegEmails, p \in Passwords : Register(e, p)
    \/ \E p \in LoginPasswords : Login(SuperAdminEmail, p)
    \/ \E u \in Authenticated, sid \in SessionIds : DeleteSession(u, sid)
    \/ \E u \in Authenticated, sid \in SessionIds : BlockSession(u, sid)
    \/ Tick

SpecScope == InitSession /\ [][NextScope]_vars

\* Verification and two-factor gates of a registering account under every
\* combination of the two flags, one call at a time.
NextGate ==
    \/ \E e \in RegEmails, p \in Passwords : Register(e, p)
    \/ \E e \in RegEmails, p \in LoginPasswords : Login(e, p)
    \/ \E e \in RegEmails, c \in Codes : VerifyEmail(e, c)
    \/ \E e \in RegEmails : ResendVerification(e)
    \/ \E e \in RegEmails : Resend2FA(e)
    \/ \E e \in RegEmails, c \in Codes : Verify2FAGet(1, e, c)
    \/ Verify2FAIssue(1)
    \/ Tick

\* every combination of the two security flags, email sending off
InitGate == Init /\ ~cfg.email /\ ~cfg.welcome

SpecGate == InitGate /\ [][NextGate]_vars

\* Two request goroutines racing on one refresh token or one stored code,
\* two-factor on and verification off.
InitRace ==
    Init /\ cfg = [verification |-> FALSE, twoFactor |-> TRUE,
                   email |-> FALSE, welcome |-> FALSE]

NextRace ==
    \/ \E e \in RegEmails, p \in Passwords : Register(e, p)
    \/ \E e \in RegEmails, p \in LoginPasswords : Login(e, p)
    \/ \E w \in Workers, e \in RegEmails, c \in Codes : Verify2FAGet(w, e, c)
    \/ \E w \in Workers : Verify2FAIssue(w)
    \/ \E w \in Workers, t \in issued \cup {Forged} : RefreshTokenLookup(w, t)
    \/ \E w \in Workers : RefreshTokenRotate(w)
    \/ Tick

SpecRace == InitRace /\ [][NextRace]_vars

\* The super-admin exemption: a registered account may be given any role
\* while unverified, under every combination of the two flags.
UserIds == 1..(Cardinality(AllEmails) + 1)

ExemptRoles == {"super_admin", "none"}

NextExempt ==
    \/ \E e \in RegEmails, p \in Passwords : Register(e, p)
    \/ \E u \in UserIds, role \in ExemptRoles : AssignRole(u, role)
    \/ \E e \in AllEmails, p \in LoginPasswords : Login(e, p)
    \/ Tick

SpecExempt == InitGate /\ [][NextExempt]_vars

\* The user directory under two concurrent callers, both security flags
\* off: registrations, POST /users and PUT /users/:id racing on two emails.
DirEmails == {"ann@x.com", "bob@x.com"}

NextUsers ==
    \/ \E w \in Workers, e \in DirEmails, p \in Passwords :
           CreateUserCheck(w, "Register", e, p, "")
    \/ \E w \in Workers, e \in DirEmails, p \in Passwords, role \in RoleInputs :
           CreateUserCheck(w, "CreateUser", e, p, role)
    \/ \E w \in Workers : CreateUserInsert(w)
    \/ \E w \in Workers, u \in UserIds, e \in DirEmails \cup {""} :
           UpdateUserFind(w, u, e, "")
    \/ \E w \in Workers : UpdateUserSave(w)

SpecUsers == InitSession /\ [][NextUsers]_vars

\* ---- specification Grant: registrations, POST /users and PUT /users/:id
\* by two concurrent callers, asking for every role and for none.
NextGrant ==
    \/ \E w \in Workers, e \in RegEmails, p \in Passwords :
           CreateUserCheck(w, "Register", e, p, "")
    \/ \E w \in Workers, e \in DirEmails, p \in Passwords, role \in RoleInputs :
           CreateUserCheck(w, "CreateUser", e, p, role)
    \/ \E w \in Workers : CreateUserInsert(w)
    \/ \E w \in Workers, u \in UserIds, role \in RoleInputs \cup {""} :
           UpdateUserFind(w, u, "", role)
    \/ \E w \in Workers : UpdateUserSave(w)

SpecGrant == InitSession /\ [][NextGrant]_vars

\* ------------------------------------------------ OAuth and detached mail
\* Both callbacks simulate the provider's answer with this address and a
\* provider id made of a fresh uuid.
OAuthEmail == "user@example.com"
Providers == {"google", "github"}

\* handleOAuthUser.  The provider id is a fresh uuid, so the lookup of the
\* OAuth account never finds a row and the user is always created.  The
\* welcome email goes out in a bare go func through oauthService's email
\* service, which NewOAuthService builds with a nil logger.  The token pair
\* is generated and returned; no session row is written.
OAuthCallback(provider) ==
    LET r == [Resp("OAuthCallback", "", 500) EXCEPT !.email = OAuthEmail]
        createdUser == CreateUser(OAuthEmail, "uuid")
    IN  /\ UNCHANGED <<cfg, roles, now, sessions, nextSid, otp, codeSeq, calls, spent,
                       pwdChecked>>
        /\ IF ExistsByEmail(OAuthEmail)
           THEN /\ last' = [r EXCEPT !.err = "FailedToCreateUser"]
                /\ UNCHANGED <<proc, users, issued>>
           ELSE /\ users' = users \cup {createdUser}
                /\ proc' = IF cfg.email /\ cfg.welcome
                           THEN [proc EXCEPT !.tasks = @ \cup
                                   {[kind |-> "welcome", to |-> OAuthEmail,
                                     logger |-> FALSE]}]
                           ELSE proc
                /\ issued' = issued \cup
                       {GenerateRefreshToken(createdUser.id, OAuthEmail,
                            createdUser.role, RolePermissions(createdUser.role))}
                /\ last' = [r EXCEPT
                       !.status = 200,
                       !.tok = GenerateRefreshToken(createdUser.id, OAuthEmail,
                            createdUser.role, RolePermissions(createdUser.role)),
                       !.acc = GenerateAccessToken(createdUser.id, OAuthEmail,
                            createdUser.role, RolePermissions(createdUser.role))]

\* One detached send runs to its end.  SendEmail logs through s.logger
\* whether DialAndSend fails (Errorf) or succeeds (Infof); with the nil
\* logger that call panics, and a panic in a goroutine that has no recover
\* ends the process.  With a logger the task ends and its error, if any, is
\* dropped.  The request that started the task was answered long before.
MailRun(task) ==
    /\ task \in proc.tasks
    /\ proc' = IF task.logger
               THEN [proc EXCEPT !.tasks = @ \ {task}]
               ELSE [alive |-> FALSE, tasks |-> {}]
    /\ UNCHANGED <<cfg, roles, now, users, sessions, nextSid, otp, codeSeq, calls, last,
                   issued, spent, pwdChecked>>

MailTasks ==
    [kind : {"verification", "two_factor", "welcome"},
     to : AllEmails \cup {OAuthEmail}, logger : BOOLEAN]

\* ------------------------------------------------- the token codec alone
CodecUsers == 1..2
PermissionLists == {<<>>, <<"users.read", "users.update">>}

\* GenerateTokenPair: the access and the refresh token of one set of inputs
GenerateTokenPair(userID, email, roleSlug, permissions) ==
    /\ last' = [Resp("GenerateTokenPair", "", 0) EXCEPT
                   !.inp = [uid |-> userID, email |-> email, role |-> roleSlug,
                            perms |-> permissions],
                   !.acc = GenerateAccessToken(userID, email, roleSlug, permissions),
                   !.tok = GenerateRefreshToken(userID, email, roleSlug, permissions)]
    /\ UNCHANGED <<cfg, roles, proc, now, users, sessions, nextSid, otp, codeSeq,
                   calls, issued, spent, pwdChecked>>

\* What a client can present: the pair it was just given, a token the
\* codec made in an earlier second, and any of these with another issuer,
\* another alg in the header, or a signature made with another key.
EarlierTokens ==
    {[GenerateToken(1, SuperAdminEmail, "super_admin", <<"*">>, expiry)
         EXCEPT !.iat = iat, !.exp = iat + expiry] :
        iat \in 0..now, expiry \in {AccessExpiry, RefreshExpiry}}

Tampered(t) ==
    {[t EXCEPT !.iss = iss, !.alg = alg, !.key = key] :
        iss \in {Issuer, "other"}, alg \in {"HS256", "HS512", "RS256", "none"},
        key \in {Secret, "guess"}}

PresentedTokens ==
    UNION {Tampered(t) : t \in EarlierTokens \cup ({last.acc, last.tok} \ {NoToken})}

\* one call of ValidateToken; the pair and the inputs of the exchange stay
\* on record beside its answer
ValidateTokenCall(tokenString) ==
    /\ last' = [last EXCEPT
                   !.op = "ValidateToken",
                   !.arg = tokenString,
                   !.err = IF ValidateToken(tokenString) THEN "" ELSE "InvalidToken",
                   !.claims = IF ValidateToken(tokenString)
                              THEN ParseClaims(tokenString) ELSE NoClaims]
    /\ UNCHANGED <<cfg, roles, proc, now, users, sessions, nextSid, otp, codeSeq,
                   calls, issued, spent, pwdChecked>>

NextCodec ==
    \/ \E userID \in CodecUsers, email \in AllEmails, roleSlug \in Roles \cup {""},
          permissions \in PermissionLists :
           GenerateTokenPair(userID, email, roleSlug, permissions)
    \/ \E tokenString \in PresentedTokens : ValidateTokenCall(tokenString)
    \/ Tick

SpecCodec == InitSession /\ [][NextCodec]_vars

\* ------------------------------------------------------------ role changes
\* roleService.UpdateRole: a non-empty permission list replaces the role's
\* list; the slug is never changed.
\* r is the answer under construction (the route layer puts the bearer in)
UpdateRoleCall(r, slug, permissions) ==
    /\ UNCHANGED <<cfg, proc, now, users, sessions, nextSid, otp, codeSeq, calls,
                   issued, spent, pwdChecked>>
    /\ IF slug \notin Roles
       THEN last' = [r EXCEPT !.err = "RoleNotFound"] /\ UNCHANGED roles
       ELSE /\ roles' = IF Len(permissions) > 0
                        THEN [roles EXCEPT ![slug] = permissions]
                        ELSE roles
            /\ last' = [r EXCEPT !.status = 200]

UpdateRole(slug, permissions) ==
    UpdateRoleCall(Resp("UpdateRole", "", 400), slug, permissions)

\* ---- specification Roles: both flags off, one request at a time; a user
\* registers, roles are assigned and edited, and refresh tokens are rotated.
AssignedRoles == {"user", "admin"}
EditedRoles == {"admin"}
EditedPermissions == {<<>>, <<"users.read">>}

NextRoles ==
    \/ \E e \in RegEmails, p \in Passwords : Register(e, p)
    \/ \E u \in UserIds, role \in AssignedRoles : AssignRole(u, role)
    \/ \E slug \in EditedRoles, permissions \in EditedPermissions :
           UpdateRole(slug, permissions)
    \/ \E t \in issued : RefreshTokenLookup(1, t)
    \/ RefreshTokenRotate(1)
    \/ Tick

SpecRoles == InitSession /\ [][NextRoles]_vars

\* --------------------------------------------------- protected routes
\* middleware.JWTAuth: the bearer must be signed with the secret by an HMAC
\* method and pass the registered time claims.  Nothing else is looked at.
JWTAuth(bearer) ==
    /\ bearer.alg \in HMACFamily
    /\ bearer.key = Secret
    /\ now < bearer.exp
    /\ bearer.iat <= now

\* the access token GenerateTokenPair made together with refresh token t
AccessOf(t) == [t EXCEPT !.exp = t.iat + AccessExpiry]

\* what a client holds: the refresh tokens it was handed and their access
\* tokens, and a string the secret did not sign
Bearers == issued \cup {AccessOf(t) : t \in issued} \cup {Forged}

\* PUT /api/v1/roles/:id: JWTAuth, the body validator, roleHandler.UpdateRole
RolesPut(bearer, slug, permissions) ==
    LET r == [Resp("UpdateRole", "", 400) EXCEPT !.arg = bearer]
    IN  IF ~JWTAuth(bearer)
        THEN /\ last' = [r EXCEPT !.err = "InvalidOrExpiredJWT", !.status = 401]
             /\ UNCHANGED <<cfg, roles, proc, now, users, sessions, nextSid, otp,
                            codeSeq, calls, issued, spent, pwdChecked>>
        ELSE UpdateRoleCall(r, slug, permissions)

\* GET /api/v1/auth/sessions: JWTAuth, then the sessions of the user the
\* bearer's user_id claim names
SessionsGet(bearer) ==
    LET r == [Resp("GetSessions", "", 401) EXCEPT !.arg = bearer]
    IN  /\ last' = IF ~JWTAuth(bearer)
                   THEN [r EXCEPT !.err = "InvalidOrExpiredJWT"]
                   ELSE [r EXCEPT !.status = 200, !.uid = bearer.uid]
        /\ UNCHANGED <<cfg, roles, proc, now, users, sessions, nextSid, otp, codeSeq,
                       calls, issued, spent, pwdChecked>>

\* ---- specification Routes: both flags off; clients register, log in and
\* log out, and call the protected routes with what they hold.
NextRoutes ==
    \/ \E e \in RegEmails, p \in Passwords : Register(e, p)
    \/ \E p \in Passwords \cup {SuperAdminPassword} : Login(SuperAdminEmail, p)
    \/ \E t \in issued : Logout(t)
    \/ \E bearer \in Bearers, slug \in EditedRoles, permissions \in EditedPermissions :
           RolesPut(bearer, slug, permissions)
    \/ \E bearer \in Bearers : SessionsGet(bearer)
    \/ Tick

SpecRoutes == InitSession /\ [][NextRoutes]_vars

\* ---- specification Mail: email sending on, every combination of the other
\* flags; requests are served while the process is alive.
InitMail == Init /\ cfg.email

NextMail ==
    \/ proc.alive /\ \E e \in RegEmails, p \in Passwords : Register(e, p)
    \/ proc.alive /\ \E e \in RegEmails, p \in Passwords : Login(e, p)
    \/ proc.alive /\ \E e \in RegEmails : ResendVerification(e)
    \/ proc.alive /\ \E e \in RegEmails : Resend2FA(e)
    \/ proc.alive /\ \E provider \in Providers : OAuthCallback(provider)
    \/ proc.alive /\ \E task \in MailTasks : MailRun(task)
    \/ proc.alive /\ Tick

SpecMail == InitMail /\ [][NextMail]_vars

\* ------------------------------------------------------ passwords at rest
\* database.SeedSuperAdmin, run at every start of the process (no request is
\* in flight then): the row with the configured email gets the hash of the
\* configured password, the super_admin role and the verified flag and is
\* saved whole (db.Save, BeforeUpdate hook); without such a row one is
\* created.
SeedSuperAdmin ==
    LET r == [Resp("SeedSuperAdmin", "", 500) EXCEPT !.email = SuperAdminEmail]
        existingUser == FindByEmail(SuperAdminEmail)
        hashedPassword == HashPassword(Plain(SuperAdminPassword))
    IN  /\ \A w \in Workers : calls[w].pc = "idle"
        /\ UNCHANGED <<cfg, roles, proc, now, sessions, nextSid, otp, codeSeq, calls,
                       issued, spent, pwdChecked>>
        /\ IF "super_admin" \notin DOMAIN roles
           THEN last' = [r EXCEPT !.err = "RoleNotFound"] /\ UNCHANGED users
           ELSE IF existingUser # NoUser
           THEN /\ users' = (users \ {existingUser}) \cup
                      {[existingUser EXCEPT
                            !.password = hashPassword(hashedPassword),
                            !.role = "super_admin", !.verified = TRUE]}
                /\ last' = [r EXCEPT !.status = 200, !.uid = existingUser.id]
           ELSE /\ users' = users \cup
                      {[id |-> Cardinality(users) + 1, email |-> SuperAdminEmail,
                        password |-> hashPassword(hashedPassword),
                        role |-> "super_admin", verified |-> TRUE]}
                /\ last' = [r EXCEPT !.status = 200,
                                     !.uid = Cardinality(users) + 1]

AllPasswords == Passwords \cup DOMAIN PrefixedPasswords

\* the role inputs of the two saves: UpdateUser without a role id, AssignRole
\* with the admin role
SavedRoles == {""}

GrantedRoles == {"admin"}

NextPassword ==
    \/ \E e \in RegEmails, p \in AllPasswords : Register(e, p)
    \/ \E e \in AllEmails, p \in AllPasswords \cup {SuperAdminPassword} : Login(e, p)
    \/ \E u \in UserIds, role \in SavedRoles : UpdateUserFind(1, u, "", role)
    \/ UpdateUserSave(1)
    \/ \E u \in UserIds, role \in GrantedRoles : AssignRole(u, role)
    \/ SeedSuperAdmin

SpecPassword == InitSession /\ [][NextPassword]_vars

\* ------------------------------------------------- Register, store failing
\* Register on a run in which the store call that follows CreateUser returns
\* an error: with verification on that call is s.redis.Set, answered "failed
\* to save verification code"; with verification off it is the insert in
\* saveSession, whose error generateAuthResponse returns.  CreateUser has
\* committed the row by then, and with verification off so has the update of
\* is_verified; neither is undone, and the detached email is not started.
RegisterStoreFault(email, password) ==
    LET r == [Resp("Register", "", 400) EXCEPT !.email = email, !.pwd = password]
        createdUser == CreateUser(email, password)
    IN  /\ UNCHANGED <<cfg, roles, proc, now, sessions, nextSid, otp, codeSeq, calls,
                       issued, spent, pwdChecked>>
        /\ IF ExistsByEmail(email)
           THEN /\ last' = [r EXCEPT !.err = "EmailExists"]
                /\ UNCHANGED users
           ELSE IF cfg.verification
           THEN /\ users' = users \cup {createdUser}
                /\ last' = [r EXCEPT !.err = "FailedToSaveVerificationCode",
                                     !.status = 500]
           ELSE /\ users' = users \cup {[createdUser EXCEPT !.verified = TRUE]}
                /\ last' = [r EXCEPT !.err = "StoreError", !.status = 500]

NextFault ==
    \/ \E e \in AllEmails, p \in Passwords : Register(e, p)
    \/ \E e \in AllEmails, p \in Passwords : RegisterStoreFault(e, p)
    \/ \E e \in AllEmails, p \in Passwords : Login(e, p)
    \/ \E e \in AllEmails, code \in Codes : VerifyEmail(e, code)
    \/ Tick

SpecFault == InitGate /\ [][NextFault]_vars

TypeOK ==
    /\ now \in 0..MaxTime
    /\ nextSid \in 1..(MaxSessions + 1)
    /\ codeSeq \in 0..MaxCodes
    /\ \A s \in sessions : s.id \in SessionIds

\* ================================================================ claims

\* C1: two RefreshToken calls that present the same valid refresh token
\* concurrently do not both get a session: no two session rows were rotated
\* from the same session row.
C1_OneRefreshOneSession ==
    \A s1, s2 \in sessions :
        (s1.parent # 0 /\ s1.parent = s2.parent) => s1.id = s2.id

\* C2: once RefreshToken(t) has succeeded, a RefreshToken(t) that begins
\* later fails.
C2_SpentTokenRejected ==
    (last.op = "RefreshToken" /\ last.late) => last.err # ""

\* C3: with email verification enabled, no session row belongs to a user who
\* is unverified and not super_admin, and no token pair is handed to one.
C3_NoSessionBeforeVerification ==
    cfg.verification =>
        /\ \A s \in sessions :
               FindByID(s.uid).verified \/ FindByID(s.uid).role = "super_admin"
        /\ last.tok # NoToken =>
               FindByID(last.tok.uid).verified
               \/ FindByID(last.tok.uid).role = "super_admin"

\* C4: every session issued by Verify2FA for an email is preceded by a Login
\* for that email that passed the password check.
C4_Verify2FAAfterLogin ==
    (last.op = "Verify2FA" /\ last.err = "") => last.tok.email \in pwdChecked

\* C5 as stated: a RefreshToken(t) that is turned away because no row with
\* token t is unblocked and unexpired -- the session was blocked, removed or
\* has expired -- is answered SessionNotFoundOrBlocked.
C5_RejectedAsSessionNotFound ==
    ( /\ last.op = "RefreshToken"
      /\ last.arg \in issued
      /\ last.err \in {"InvalidOrExpiredToken", "SessionNotFoundOrBlocked"}
      /\ ~\E s \in sessions : s.token = last.arg /\ ~s.blocked /\ now < s.expires )
    => last.err = "SessionNotFoundOrBlocked"

\* C5 as amended: RefreshToken(t) goes on to mint a pair only if at lookup
\* time a row with token t exists, unblocked and unexpired; a call turned
\* away is answered SessionNotFoundOrBlocked while t itself is unexpired and
\* InvalidOrExpiredToken once t has expired, which is the answer for every
\* expired session because a row never outlives its token's validity check;
\* and a blocked row stays blocked as long as it exists.
C5_LookupRequiresValidRow ==
    \A w \in Workers :
        (calls[w].pc = "idle" /\ calls'[w].pc = "rt_found") =>
            \E s \in sessions :
                s.token = calls'[w].tok /\ ~s.blocked /\ now < s.expires

C5_PairOnlyAfterLookup ==
    (last'.op = "RefreshToken" /\ last'.err = "") =>
        \E w \in Workers : calls[w].pc = "rt_found" /\ calls[w].tok = last'.arg

C5_RejectionKind ==
    ( /\ last.op = "RefreshToken"
      /\ last.arg \in issued
      /\ last.err \in {"InvalidOrExpiredToken", "SessionNotFoundOrBlocked"} )
    => /\ ~\E s \in sessions : s.token = last.arg /\ ~s.blocked /\ now < s.expires
       /\ last.err = IF now < last.arg.exp THEN "SessionNotFoundOrBlocked"
                     ELSE "InvalidOrExpiredToken"

C5_ExpiredRowHasExpiredToken ==
    \A s \in sessions : s.expires <= now => s.token.exp <= now

C5_BlockedStaysBlocked ==
    \A s \in sessions : \A s2 \in sessions' :
        (s.blocked /\ s2.id = s.id) => s2.blocked

\* C5 (amended): a pair is minted only after a lookup that found a valid
\* row, a rejection names the token's or the row's state as above, and a
\* blocked row stays blocked.
C5_RefreshValidity ==
    /\ [][C5_LookupRequiresValidRow]_vars
    /\ [][C5_PairOnlyAfterLookup]_vars
    /\ [](C5_RejectionKind /\ C5_ExpiredRowHasExpiredToken)
    /\ [][C5_BlockedStaysBlocked]_vars

\* a refresh with the token of a blocked, still unexpired session was turned away
C5_Witness ==
    /\ last.op = "RefreshToken"
    /\ last.err = "SessionNotFoundOrBlocked"
    /\ \E s \in sessions : s.token = last.arg /\ s.blocked /\ now < s.expires

\* C6: DeleteSession(userA, s) and BlockSession(userA, s) with s owned by
\* another user leave every session row as it was.
C6_ForeignSessionStep ==
    ( /\ last'.op \in {"DeleteSession", "BlockSession"}
      /\ \E s \in sessions : s.id = last'.sid /\ s.uid # last'.uid )
    => sessions' = sessions

\* C6: every DeleteSession / BlockSession step aimed at another user's
\* session leaves the sessions table unchanged.
C6_ForeignSessionUntouched == [][C6_ForeignSessionStep]_vars

\* user A has just called DeleteSession on an unblocked session of user B
C6_Witness ==
    /\ last.op = "DeleteSession"
    /\ \E s \in sessions : s.id = last.sid /\ s.uid # last.uid /\ ~s.blocked

\* C7: DeleteSession(userA, s) with s owned by another user or not existing
\* is not answered as a successful deletion.
C7_NothingDeletedStep ==
    ( /\ last'.op = "DeleteSession"
      /\ ~\E s \in sessions : s.id = last'.sid /\ s.uid = last'.uid )
    => last'.status # 200

\* C7: no DeleteSession step that deletes nothing is answered 200.
C7_NothingDeletedNotFound == [][C7_NothingDeletedStep]_vars

\* C8: one stored two-factor code yields at most one session.
C8_OneCodeOneSession ==
    \A s1, s2 \in sessions :
        (s1.via # 0 /\ s1.via = s2.via) => s1.id = s2.id

\* C9: a successful VerifyEmail(email, code) leaves the user verified and the
\* code deleted, and the same call made again right after it fails with
\* InvalidOrExpiredCode.
C9_FirstCallEffect ==
    (last.op = "VerifyEmail" /\ last.err = "") =>
        /\ FindByEmail(last.email).verified
        /\ otp[<<"activation", last.email>>].code = ""

C9_SecondCallStep ==
    ( /\ last.op = "VerifyEmail" /\ last.err = ""
      /\ last'.op = "VerifyEmail"
      /\ last'.email = last.email /\ last'.code = last.code )
    => last'.err = "InvalidOrExpiredCode"

\* C9: the first call's effect holds and the repeated call is rejected.
C9_VerifyEmailOnce == []C9_FirstCallEffect /\ [][C9_SecondCallStep]_vars

\* with verification on, a VerifyEmail for an account that is already
\* verified, its code gone, was answered InvalidOrExpiredCode
C9_Witness ==
    /\ cfg.verification
    /\ last.op = "VerifyEmail"
    /\ last.err = "InvalidOrExpiredCode"
    /\ FindByEmail(last.email).verified
    /\ otp[<<"activation", last.email>>].code = ""

\* C10: Login with an unregistered email and Login with a registered email
\* and a wrong password get the same InvalidCredentials answer, and the step
\* leaves users, sessions and the OTP store unchanged.
C10_SameAnswer ==
    ( /\ last.op = "Login"
      /\ \/ ~\E u \in users : u.email = last.email
         \/ \E u \in users : u.email = last.email
                             /\ ~ComparePassword(u.password, Plain(last.pwd)) )
    => last = [NoResp EXCEPT !.op = "Login", !.err = "InvalidCredentials",
                             !.status = 401, !.email = last.email,
                             !.pwd = last.pwd]

C10_NoEffectStep ==
    (last'.op = "Login" /\ last'.err = "InvalidCredentials") =>
        UNCHANGED <<users, sessions, otp>>

\* C10: both failing logins get the one InvalidCredentials answer and
\* change nothing.
C10_InvalidCredentialsUniform == []C10_SameAnswer /\ [][C10_NoEffectStep]_vars

\* a Login with a registered email and a wrong password was turned away
C10_Witness ==
    /\ last.op = "Login"
    /\ last.err = "InvalidCredentials"
    /\ \E u \in users : u.email = last.email

\* C11: a Login by a super_admin user with the correct password is answered
\* with a token pair and a session row of that user, never with a two-factor
\* challenge, whatever the flags and the user's verified flag.
C11_SuperAdminLogsIn ==
    \A u \in users :
        ( /\ last.op = "Login"
          /\ u.email = last.email
          /\ u.role = "super_admin"
          /\ ComparePassword(u.password, Plain(last.pwd)) )
        => /\ last.err = ""
           /\ ~last.requires2FA
           /\ last.tok # NoToken
           /\ \E s \in sessions :
                  s.id = last.sid /\ s.token = last.tok /\ s.uid = u.id

\* C12: with 2FA enabled a Login with correct credentials by a user who is
\* not super_admin (and is let past the verification gate) is answered
\* requires2FA with no tokens and no new session, a code being stored under
\* 2fa:{email}; the Verify2FA that follows with that code is answered with a
\* token pair and creates the session.
C12_LoginStep ==
    \A u \in users :
        ( /\ cfg.twoFactor
          /\ last'.op = "Login"
          /\ u.email = last'.email
          /\ ComparePassword(u.password, Plain(last'.pwd))
          /\ u.role # "super_admin"
          /\ (u.verified \/ ~cfg.verification) )
        => /\ last'.err = "" /\ last'.requires2FA
           /\ last'.tok = NoToken /\ last'.sid = 0
           /\ sessions' = sessions
           /\ otp'[<<"2fa", u.email>>].code # ""

C12_VerifyStep ==
    \A w \in Workers :
        ( /\ calls[w].pc = "v2_checked" /\ calls'[w].pc = "idle"
          /\ otp[<<"2fa", calls[w].email>>].by = "Login"
          /\ otp[<<"2fa", calls[w].email>>].n = calls[w].inst )
        => /\ last'.op = "Verify2FA" /\ last'.err = ""
           /\ last'.tok # NoToken
           /\ last'.tok.email = calls[w].email
           /\ \E s \in sessions' \ sessions :
                  s.id = last'.sid /\ s.token = last'.tok

\* C12: both steps of the two-factor login behave as stated.
C12_TwoFactorLogin == [][C12_LoginStep /\ C12_VerifyStep]_vars

\* C13: a Register of an email no user has creates the user with role user;
\* with verification off it answers with an access and a refresh token,
\* marks the user verified, saves a session row for the user and stores no
\* code; with verification on it answers without tokens, saves no session,
\* leaves the user unverified and stores a code of six decimal digits under
\* activation:{email} that lives 600 seconds.
C13_RegisterStep ==
    (last'.op = "Register" /\ ~\E u \in users : u.email = last'.email) =>
        LET e == last'.email
            k == <<"activation", e>>
        IN  /\ last'.err = ""
            /\ \E u \in users' \ users :
                   /\ users' = users \cup {u}
                   /\ u.email = e /\ u.role = "user"
                   /\ u.verified = ~cfg.verification
                   /\ IF cfg.verification
                      THEN /\ last'.tok = NoToken /\ last'.acc = NoToken
                           /\ sessions' = sessions
                           /\ Len(CodeDigits[otp'[k].code]) = 6
                           /\ \A i \in 1..6 : CodeDigits[otp'[k].code][i] \in 0..9
                           /\ otp'[k].exp = now + 600
                      ELSE /\ last'.tok # NoToken /\ last'.acc # NoToken
                           /\ \E s \in sessions' \ sessions :
                                  /\ sessions' = sessions \cup {s}
                                  /\ s.uid = u.id /\ s.token = last'.tok
                                  /\ ~s.blocked
                           /\ otp' = otp

\* C13: every Register step of a new email has the effect its flag prescribes.
C13_RegisterByFlag == [][C13_RegisterStep]_vars

\* with verification on, a Register has just created an unverified user and
\* stored an activation code
C13_Witness ==
    /\ cfg.verification
    /\ last.op = "Register" /\ last.err = "" /\ last.tok = NoToken
    /\ \E u \in users : u.email = last.email /\ ~u.verified
    /\ otp[<<"activation", last.email>>].code # ""
    /\ sessions = {}

\* C14: a Register that finds its email in the directory is answered
\* EmailExists and changes nothing, and no two user rows share an email.
C14_UniqueEmails ==
    \A u1, u2 \in users : u1.email = u2.email => u1 = u2

\* a Register answered by its first statement, the email being in use
C14_EmailExistsStep ==
    ( /\ last'.op = "Register"
      /\ calls' = calls
      /\ \E u \in users : u.email = last'.email )
    => /\ last'.err = "EmailExists"
       /\ UNCHANGED <<users, sessions, otp>>

\* C14: after any interleaving of Register, CreateUser and UpdateUser calls
\* emails are unique, and a Register of a used email is answered EmailExists
\* and changes nothing.
C14_EmailsStayUnique == []C14_UniqueEmails /\ [][C14_EmailExistsStep]_vars

\* two registrations of one email raced: the later insert was refused and
\* the email has exactly one row
C14_Witness ==
    /\ last.op = "Register" /\ last.err = "StoreError"
    /\ Cardinality({u \in users : u.email = last.email}) = 1


C16_ValidateRejects ==
    (last.op = "ValidateToken" /\ last.err = "")
        => /\ last.arg.key = Secret
           /\ now < last.arg.exp
           /\ last.arg.iss = Issuer
           /\ last.arg.alg \in HMACFamily

C19_LogoutStep ==
    last'.op = "Logout"
        => /\ last'.err = "" /\ last'.status = 200
           /\ sessions' \subseteq sessions
           /\ \A s \in sessions : s \in sessions' <=> s.token # last'.arg
           /\ (last.op = "Logout" /\ last.arg = last'.arg)
                  => /\ sessions' = sessions
                     /\ UNCHANGED <<users, otp, issued, spent, nextSid>>

C19_LogoutIdempotent == [][C19_LogoutStep]_vars

C19_Witness ==
    /\ last.op = "Logout" /\ last.sid # 0 /\ last.err = ""
    /\ \A s \in sessions : s.token # last.arg
    /\ \E s \in sessions : s.uid = last.arg.uid

\* C20: each purpose and email has one stored code.  A code stored by
\* Register, Login, ResendVerification or Resend2FA replaces the code of its
\* purpose and starts the TTL again, and from then on VerifyEmail and
\* Verify2FA accept the newest code only: an older, different code is
\* answered InvalidOrExpiredCode.
C20_Purpose(k) ==
    IF k[1] = "activation"
    THEN [ttl |-> ActivationTTL, by |-> {"Register", "ResendVerification"}]
    ELSE [ttl |-> TwoFactorTTL, by |-> {"Login", "Resend2FA"}]

C20_SetStep ==
    /\ codeSeq' # codeSeq => \E k \in OtpKeys : otp'[k].n = codeSeq'
    /\ \A k \in OtpKeys :
        (otp'[k] # otp[k] /\ otp'[k] # NoCode)
            => /\ otp'[k].n = codeSeq + 1 /\ codeSeq' = codeSeq + 1
               /\ otp'[k].exp = now + C20_Purpose(k).ttl
               /\ otp'[k].by \in C20_Purpose(k).by
               /\ otp'[k].old = RedisGet(k)
               /\ \A j \in OtpKeys \ {k} : otp'[j] = otp[j]

C20_VerifyStep ==
    /\ last'.op = "VerifyEmail"
           => (last'.err = "" <=> last'.code = RedisGet(<<"activation", last'.email>>))
    /\ (last'.op = "VerifyEmail" /\ last'.err # "")
           => last'.err = "InvalidOrExpiredCode" /\ otp' = otp
    /\ \A w \in Workers :
          (calls[w].pc = "idle" /\ calls'[w].pc = "v2_checked")
              => /\ calls'[w].code = RedisGet(<<"2fa", calls'[w].email>>)
                 /\ calls'[w].inst = otp[<<"2fa", calls'[w].email>>].n
    /\ (last'.op = "Verify2FA" /\ last'.err = "InvalidOrExpiredCode")
           => /\ last'.code # RedisGet(<<"2fa", last'.email>>)
              /\ otp' = otp /\ sessions' = sessions

C20_NewestCodeOnly == [][C20_SetStep /\ C20_VerifyStep]_vars

C20_Witness ==
    \E k \in OtpKeys :
        /\ otp[k].by \in {"ResendVerification", "Resend2FA"}
        /\ otp[k].old # "" /\ otp[k].old # otp[k].code
        /\ last.op = (IF k[1] = "activation" THEN "VerifyEmail" ELSE "Verify2FA")
        /\ last.email = k[2] /\ last.code = otp[k].old
        /\ last.err = "InvalidOrExpiredCode"

\* C21: Register, CreateUser and UpdateUser give nobody the super_admin
\* role: a registered user gets the role user, a created user the role user
\* or admin, a request for any other role is refused and changes no user,
\* and nobody but the seeded super admin ever holds super_admin.
C21_OnlySeeded == \A u \in users : u.role = "super_admin" => u.id = 1

C21_GrantStep ==
    /\ \A u \in users' :
          (\A v \in users : v.id # u.id)
              => /\ u.role \in {"user", "admin"}
                 /\ last'.op = "Register" => u.role = "user"
    /\ last'.err \in {"RoleNotAllowed", "RoleNotFound"} => users' = users

C22_RoleStep ==
    /\ roles' # roles => last'.arg.role = "super_admin"
    /\ (last'.op = "UpdateRole" /\ last'.arg.role \in {"user", "admin"})
           => last'.status \in {401, 403} /\ roles' = roles

C22_RolesBySuperAdminOnly == [][C22_RoleStep]_vars

\* C27: a route guarded by JWTAuth is served only to the bearer of an access
\* token: a refresh token, and above all the refresh token of a session
\* that was logged out, deleted or blocked, is refused.
C27_AccessTokensOnly ==
    (last.op = "GetSessions" /\ last.status = 200) => last.arg \notin issued

\* C23: an error of the relational or key-value store reaches the caller of
\* an orchestrator method only wrapped as StoreFailure: no answer carries
\* the store's own error.
C23_StoreErrorsWrapped ==
    last.op \in {"Register", "Login", "Verify2FA", "RefreshToken", "Logout"}
        => last.err # "StoreError"

\* C24: a save of a user row whose password field already holds a hash
\* (UpdateUser, AssignRole, the seeding at start) does not hash the field a
\* second time: the field keeps its value, every password that passed the
\* credential check before the save passes it after, the seeded row holds
\* the hash of the configured password, and the super admin still logs in
\* with the configured password.
C24_SaveStep ==
    last'.op \in {"UpdateUser", "AssignRole", "SeedSuperAdmin"} =>
        \A u \in users, v \in users' :
            (u.id = v.id /\ IsHashed(u.password)) =>
                /\ v.password = u.password
                /\ \A p \in AllPasswords \cup {SuperAdminPassword} :
                       ComparePassword(u.password, Plain(p))
                           => ComparePassword(v.password, Plain(p))
                /\ (last'.op = "SeedSuperAdmin" /\ v.email = SuperAdminEmail)
                       => ComparePassword(v.password, Plain(SuperAdminPassword))

C24_SeededLogsIn ==
    (last.op = "Login" /\ last.email = SuperAdminEmail
                       /\ last.pwd = SuperAdminPassword)
        => last.err # "InvalidCredentials"

C29_RegisterStep ==
    (last'.op = "Register" /\ last'.err = "") =>
        \E u \in users' : /\ u.email = last'.email
                          /\ ComparePassword(u.password, Plain(last'.pwd))

C29_LoginPasses ==
    \A u \in users :
        ( /\ last.op = "Login"
          /\ u.email = last.email
          /\ u.password = hashPassword(Plain(last.pwd)) )
        => last.err # "InvalidCredentials"

C29_AnyPasswordHashed == []C29_LoginPasses /\ [][C29_RegisterStep]_vars

\* C25: session tokens are unique: no two session rows hold the same token,
\* every successful issuance (Register, Login, Verify2FA, RefreshToken)
\* returns a refresh token that was never issued before, and RefreshToken
\* never returns the token it was given.
C25_RowsDistinct ==
    \A s, t \in sessions : s.id # t.id => s.token # t.token

C25_IssueStep ==
    ( /\ last'.op \in {"Register", "Login", "Verify2FA", "RefreshToken"}
      /\ last'.err = ""
      /\ last'.tok # NoToken )
    => /\ last'.tok \notin issued
       /\ last'.op = "RefreshToken" => last'.tok # last'.arg

C25_TokensUnique == []C25_RowsDistinct /\ [][C25_IssueStep]_vars

\* C26: every refresh token handed to a client by Register, Login, Verify2FA,
\* RefreshToken or an OAuth callback has, at the moment it is returned, an
\* unblocked session row of that user holding it.
C26_HandOverStep ==
    ( /\ last'.op \in {"Register", "Login", "Verify2FA", "RefreshToken",
                       "OAuthCallback"}
      /\ last'.err = ""
      /\ last'.tok # NoToken )
    => \E s \in sessions' : /\ s.token = last'.tok
                            /\ s.uid = last'.tok.uid
                            /\ ~s.blocked

C28_FailedRefreshStep ==
    (last'.op = "RefreshToken" /\ last'.err # "") =>
        /\ sessions' = sessions
        /\ (\E s \in sessions : s.token = last'.arg)
               => \E s \in sessions' : s.token = last'.arg

C28_FailedRefreshKeepsSessions == [][C28_FailedRefreshStep]_vars

\* C30: a Register call that returns an error leaves no new user record: the
\* user table is as before and an email that was free is still free.
C30_FailedRegisterStep ==
    (last'.op = "Register" /\ last'.err # "") =>
        /\ users' = users
        /\ (~\E u \in users : u.email = last'.email)
               => ~\E u \in users' : u.email = last'.email

C30_FailedRegisterLeavesNoUser == [][C30_FailedRegisterStep]_vars
====
